---- MODULE Spec2Model ----
(***************************************************************************)
(* Model of tools/port_scanner/scan.py: the port scanner and port closer.  *)
(*                                                                         *)
(* One run of the script is one behaviour: main() reads a request from     *)
(* standard input, dispatches to the scan or to the close protocol and     *)
(* prints one JSON response.  The operating system (processes, their       *)
(* owners, the listener table, the introspection tools that are            *)
(* installed) is part of the state.  A scan is one step; close_port is a   *)
(* sequence of steps (resolve, SIGTERM, sleep, probe, SIGKILL, sleep,      *)
(* probe) between which the operating system may change.                   *)
(***************************************************************************)
EXTENDS Integers, Sequences, FiniteSets, TLC

VARIABLES
    os_name,    \* os.name: "posix" or "nt"
    tools,      \* the introspection tools installed: subset of {"netstat","lsof","ps"}
    alive,      \* pids of the running processes
    mine,       \* pids of the running processes owned by the invoking user
    table,      \* the listener table, in the order netstat prints it: <<[port, pid]>>
    pc,         \* position of the script
    req,        \* the request read from stdin
    cl,         \* locals of close_port: port, pid, process_name, success, message
    stdout,     \* the JSON objects printed, in order
    exit_code,  \* the exit status of the script (set when pc = "done")
    uncaught,   \* TRUE iff main ended with an exception no handler caught
    probed,     \* the ports scan_ports handed to scan_port: a list or a range
    resolved,   \* the calls of get_process_info, in order: the port asked
                \* for, the external commands the call ran, and the
                \* processes that listened on that port at the time
    events      \* what close_port did, in order: resolve, signal, sleep, probe

vars == <<os_name, tools, alive, mine, table, pc, req, cl, stdout, exit_code,
          uncaught, probed, resolved, events>>

env == <<os_name, tools, alive, mine, table>>

----------------------------------------------------------------------------
(* Bounds of the model *)

\* pids are 1..MaxPid
MaxPid == 2

Pids == 1..MaxPid

\* the ports on which a process may listen: two common ports that
\* COMMON_PORTS lists in descending order (8080 before 3030); the text ":80"
\* of a request for port 80 occurs in the line of port 8080
EnvPorts == {3030, 8080}

----------------------------------------------------------------------------
(* Program constants *)

COMMON_PORTS ==
    << 21, 22, 23, 25, 53, 80, 110, 143, 443, 993, 995,
       1433, 1521, 3306, 5432, 6379, 27017,
       3000, 3001, 4000, 5000, 5173, 8000, 8080, 8443,
       9000, 9001, 9090, 3030, 4200, 5500, 8888, 9999 >>

\* data.get('port_range', [1, 65535])
DefaultStart == 1
DefaultEnd == 65535

\* the safety limit of main: port_range[1] - port_range[0] > 10000
ScanLimit == 10000

\* min(port_range[1] - port_range[0] + 1, 10001)
TotalLimit == 10001

----------------------------------------------------------------------------
(* The operating system as the script sees it *)

\* a line of the listener table: a listening TCP socket and the process holding it
Line(port, pid) == [port |-> port, pid |-> pid]

ListeningPorts == {table[i].port : i \in DOMAIN table}

\* the decimal text of a positive integer, as a sequence of digits (str(port))
RECURSIVE Digits(_)
Digits(n) == IF n < 10 THEN <<n>> ELSE Append(Digits(n \div 10), n % 10)

IsPrefix(s, t) == Len(s) <= Len(t) /\ SubSeq(t, 1, Len(s)) = s

\* f':{port}' in line, and grep :{port}: a substring test on the text of the
\* line.  The only ":<digits>" of a listener line is its local address
\* "0.0.0.0:<port>", so the text ":<port>" occurs in it iff the digits of the
\* requested port begin the digits of the line's port.
PortInLine(port, l) == IsPrefix(Digits(port), Digits(l.port))

\* str(pid), the text of a pid as the tools print it
PidStr(p) == <<"1", "2", "3", "4", "5", "6">>[p]

IsNumeric(s) == \E p \in Pids : PidStr(p) = s

\* int(process_info["process_id"]); raises ValueError when not IsNumeric
IntOf(s) == CHOOSE p \in Pids : PidStr(p) = s

\* the command name and the command line ps prints for a running process
CommOf(p) == <<"nginx", "node", "python", "redis", "java", "sshd">>[p]
ArgsOf(p) == <<"nginx -g daemon", "node server.js", "python -m http.server",
               "redis-server", "java -jar app.jar", "sshd -D">>[p]

\* 'netstat -tlnp 2>/dev/null | grep :{port}': the lines of the table whose
\* text contains ":<port>", in table order; nothing when netstat is missing
NetstatOutput(port) ==
    IF "netstat" \in tools
    THEN SelectSeq(table, LAMBDA l : PortInLine(port, l))
    ELSE <<>>

\* len(line.split()): 7 columns for netstat -tlnp, 5 for netstat -ano
NumParts(l) == IF os_name = "nt" THEN 5 ELSE 7

\* parts[-1]: "PID/Program name", or "-" for a process of another user
PidColumn(l) ==
    IF l.pid \in mine
    THEN [slash |-> TRUE, pid |-> PidStr(l.pid), name |-> CommOf(l.pid)]
    ELSE [slash |-> FALSE, pid |-> "-", name |-> ""]

\* ps -p <pid>: returncode 0 iff the pid is a number of a running process
PsFinds(pidstr) == IsNumeric(pidstr) /\ IntOf(pidstr) \in alive

\* the value get_process_info returns; found = FALSE stands for None.  via
\* and line_port record which lookup answered and the port of the entry used.
None ==
    [found |-> FALSE, process_id |-> "", process_name |-> "",
     process_command |-> "", via |-> "none", line_port |-> 0]

Info(pid, name, command, via, line_port) ==
    [found |-> TRUE, process_id |-> pid, process_name |-> name,
     process_command |-> command, via |-> via, line_port |-> line_port]

\* the first line of the netstat output with more than 6 columns
ListenerLines(port) == SelectSeq(NetstatOutput(port), LAMBDA l : NumParts(l) > 6)

\* lines 74-119: the listener-table lookup with the ps queries by pid
ListenerLookup(port) ==
    LET l == ListenerLines(port)[1]
        pid_info == PidColumn(l)
        pid == pid_info.pid
        netstat_name == IF pid_info.slash THEN pid_info.name ELSE "unknown"
    IN  IF os_name # "nt"
        THEN IF "ps" \notin tools
             THEN \* subprocess.run raises FileNotFoundError: except Exception
                  Info(pid, netstat_name, "unknown", "netstat", l.port)
             ELSE Info(pid,
                       IF PsFinds(pid) THEN CommOf(IntOf(pid)) ELSE netstat_name,
                       IF PsFinds(pid) THEN ArgsOf(IntOf(pid)) ELSE "unknown",
                       "netstat", l.port)
        ELSE Info(pid, netstat_name, "unknown", "netstat", l.port)

\* 'lsof -i :<port> -t': the pids of the user's processes with a socket on
\* exactly this port
LsofOutput(port) ==
    SelectSeq(table, LAMBDA l : l.port = port /\ l.pid \in mine)

\* lines 121-151: the open-files fallback; a missing lsof or ps raises
\* FileNotFoundError, which except Exception: pass turns into None
LsofLookup(port) ==
    IF "lsof" \notin tools \/ LsofOutput(port) = <<>> THEN None
    ELSE LET l == LsofOutput(port)[1]
             pid == PidStr(l.pid)
         IN  IF "ps" \notin tools THEN None
             ELSE Info(pid,
                       IF PsFinds(pid) THEN CommOf(IntOf(pid)) ELSE "unknown",
                       IF PsFinds(pid) THEN ArgsOf(IntOf(pid)) ELSE "unknown",
                       "lsof", l.port)

\* lines 93-104, 132-142: the two ps commands; when ps is missing the first
\* subprocess.run raises and the second is not reached
PsCalls == IF "ps" \in tools THEN <<"ps", "ps">> ELSE <<"ps">>

\* lines 74, 92-104: the commands the listener-table lookup runs
ListenerCalls == <<"netstat">> \o (IF os_name # "nt" THEN PsCalls ELSE <<>>)

\* lines 124-142: the commands the open-files fallback runs
LsofCalls(port) ==
    <<"lsof">> \o (IF "lsof" \in tools /\ LsofOutput(port) # <<>>
                   THEN PsCalls ELSE <<>>)

\* the processes with a listening socket on exactly this port
Holders(port) == {table[i].pid : i \in {j \in DOMAIN table : table[j].port = port}}

\* a result of get_process_info together with the commands that were run
Called(info, calls) ==
    [found |-> info.found, process_id |-> info.process_id,
     process_name |-> info.process_name,
     process_command |-> info.process_command,
     via |-> info.via, line_port |-> info.line_port, calls |-> calls]

\* get_process_info with the open-files lookup tried before the listener table
get_process_infoLsofFirst(port) ==
    IF os_name # "nt" /\ LsofLookup(port).found
    THEN Called(LsofLookup(port), LsofCalls(port))
    ELSE IF ListenerLines(port) # <<>>
    THEN Called(ListenerLookup(port), LsofCalls(port) \o ListenerCalls)
    ELSE Called(None, LsofCalls(port) \o <<"netstat">>)

\* get_process_info(port)
get_process_info(port) ==
    IF ListenerLines(port) # <<>>
    THEN Called(ListenerLookup(port), ListenerCalls)
    ELSE IF os_name # "nt"
    THEN Called(LsofLookup(port), <<"netstat">> \o LsofCalls(port))
    ELSE Called(None, <<"netstat">>)

----------------------------------------------------------------------------
(* Requests: what main reads from standard input *)

\* raw: "empty" (nothing but white space), "garbage" (not JSON), "scalar"
\* (JSON, but a number and not an object) or "object"; the other fields are
\* those of the object, has_* telling whether the key is present, and
\* range_is_list whether port_range is a JSON list
Request(raw, has_action, action, has_range, range_is_list, port_range, common, has_port, port_to_close) ==
    [raw |-> raw, has_action |-> has_action, action |-> action,
     has_range |-> has_range, range_is_list |-> range_is_list,
     port_range |-> port_range, common_ports_only |-> common,
     has_port |-> has_port, port_to_close |-> port_to_close]

NoRequest == Request("empty", FALSE, "", FALSE, FALSE, <<>>, FALSE, FALSE, 0)

\* the port_range values tried: not 2 elements, descending, small ranges
\* around the listeners, ranges at and over the safety limit, and a range
\* that leaves the valid port numbers
Ranges ==
    { <<5>>, <<1, 2, 3>>, <<8081, 8079>>, <<81, 80>>,
      <<80, 80>>, <<8079, 8081>>, <<70, 10069>>, <<75, 10075>>, <<75, 10076>>,
      <<65535, 65536>> }

\* the ports asked to be closed
ClosePorts == {80, 8080, 65534}

BadRequests ==
    { Request("empty", FALSE, "", FALSE, FALSE, <<>>, FALSE, FALSE, 0),
      Request("garbage", FALSE, "", FALSE, FALSE, <<>>, FALSE, FALSE, 0),
      Request("scalar", FALSE, "", FALSE, FALSE, <<>>, FALSE, FALSE, 0),
      Request("object", FALSE, "", FALSE, FALSE, <<>>, FALSE, FALSE, 0),
      Request("object", TRUE, "kill", FALSE, FALSE, <<>>, FALSE, TRUE, 80),
      Request("object", TRUE, "close", FALSE, FALSE, <<>>, FALSE, FALSE, 0) }

ScanRequests ==
    { Request("object", TRUE, "scan", TRUE, TRUE, r, c, FALSE, 0) :
        r \in Ranges, c \in BOOLEAN }
    \cup { Request("object", TRUE, "scan", FALSE, FALSE, <<>>, c, FALSE, 0) :
        c \in BOOLEAN }
    \cup { Request("object", TRUE, "scan", TRUE, FALSE, <<>>, FALSE, FALSE, 0) }

CloseRequests ==
    { Request("object", TRUE, "close", FALSE, FALSE, <<>>, FALSE, TRUE, p) :
        p \in ClosePorts }

Requests == BadRequests \cup ScanRequests \cup CloseRequests

----------------------------------------------------------------------------
(* Exceptions and the handlers of main *)

NoExc == [type |-> "none", text |-> ""]
Exc(type, text) == [type |-> type, text |-> text]

\* the classes an exception is an instance of
Classes(type) ==
    CASE type = "JSONDecodeError" -> {"JSONDecodeError", "ValueError", "Exception"}
      [] type = "ValueError" -> {"ValueError", "Exception"}
      [] type = "TypeError" -> {"TypeError", "Exception"}
      [] OTHER -> {"Exception"}

\* main without its catch-all clause: only ValueError is caught
MainHandlersValueError ==
    << [class |-> "JSONDecodeError", fmt |-> "Invalid JSON input: {e}"],
       [class |-> "ValueError", fmt |-> "Error: {e}"] >>

\* main with its except clauses in the other order
MainHandlersSwapped ==
    << [class |-> "Exception", fmt |-> "Error: {e}"],
       [class |-> "JSONDecodeError", fmt |-> "Invalid JSON input: {e}"] >>

\* the except clauses of main, in order: the class caught and the message format
MainHandlers ==
    << [class |-> "JSONDecodeError", fmt |-> "Invalid JSON input: {e}"],
       [class |-> "Exception", fmt |-> "Error: {e}"] >>

\* a message: the format string and the values put into it
Msg(fmt, port, detail) == [fmt |-> fmt, port |-> port, detail |-> detail]
NoMsg == Msg("", 0, "")

\* the check of port_range without the comparison of its ends
BadRangeLengthOnly(port_range) == Len(port_range) # 2

\* line 252: len(port_range) != 2 or port_range[0] > port_range[1]
BadRange(port_range) == Len(port_range) # 2 \/ port_range[1] > port_range[2]

\* lines 233-253, 278-293: the exception main raises before it dispatches
Validate(r) ==
    IF r.raw = "empty" THEN Exc("ValueError", "No input data received")
    ELSE IF r.raw = "garbage" THEN Exc("JSONDecodeError", "Expecting value")
    ELSE IF r.raw = "scalar"
    THEN Exc("TypeError", "argument of type 'int' is not iterable")
    ELSE IF ~r.has_action THEN Exc("ValueError", "Missing required field: action")
    ELSE IF r.action = "scan"
    THEN IF r.has_range /\ ~r.range_is_list
         THEN Exc("TypeError", "object of type 'int' has no len()")
         ELSE LET port_range ==
                      IF r.has_range THEN r.port_range
                      ELSE <<DefaultStart, DefaultEnd>>
              IN  IF BadRange(port_range)
                  THEN Exc("ValueError",
                           "Invalid port_range: must be [start_port, end_port]")
                  ELSE NoExc
    ELSE IF r.action = "close"
    THEN IF ~r.has_port
         THEN Exc("ValueError",
                  "Missing required field for close action: port_to_close")
         ELSE NoExc
    ELSE Exc("ValueError", "Invalid action: {action}. Must be 'scan' or 'close'")

\* the except clauses that catch an exception, in order
Catching(e) ==
    SelectSeq(MainHandlers, LAMBDA h : h.class \in Classes(e.type))

\* Fail without its sys.exit(1): the script ends with status 0
FailWithoutExit(e) ==
    /\ IF Catching(e) # <<>>
       THEN /\ stdout' = Append(stdout,
                   [success |-> FALSE,
                    message |-> Msg(Catching(e)[1].fmt, 0, e.text)])
            /\ uncaught' = FALSE
            /\ exit_code' = 0
       ELSE /\ stdout' = stdout
            /\ uncaught' = TRUE
            /\ exit_code' = 1
    /\ pc' = "done"

\* lines 297-311: print the failure response and sys.exit(1); an exception
\* that no clause catches ends the script with a traceback and status 1
Fail(e) ==
    /\ IF Catching(e) # <<>>
       THEN /\ stdout' = Append(stdout,
                   [success |-> FALSE,
                    message |-> Msg(Catching(e)[1].fmt, 0, e.text)])
            /\ uncaught' = FALSE
       ELSE /\ stdout' = stdout
            /\ uncaught' = TRUE
    /\ exit_code' = 1
    /\ pc' = "done"

----------------------------------------------------------------------------
(* The scan *)

Min(a, b) == IF a < b THEN a ELSE b

\* main without the limit on the range: the range is scanned as requested
ClampNever(port_range, common) == port_range

\* Clamp applied to common-ports-only scans as well
ClampAlways(port_range, common) ==
    IF port_range[2] - port_range[1] > ScanLimit
    THEN <<port_range[1], port_range[1] + ScanLimit>>
    ELSE port_range

\* Clamp with the limit applied to the wrong end of the range
ClampFromEnd(port_range, common) ==
    IF port_range[2] - port_range[1] > ScanLimit /\ ~common
    THEN <<port_range[2] - ScanLimit, port_range[2]>>
    ELSE port_range

\* lines 255-257: limit the scan range for safety (port_range is changed in place)
Clamp(port_range, common) ==
    IF port_range[2] - port_range[1] > ScanLimit /\ ~common
    THEN <<port_range[1], port_range[1] + ScanLimit>>
    ELSE port_range

InRange(port_range, p) == port_range[1] <= p /\ p <= port_range[2]

\* the range object built without the + 1: range(start, end)
ports_to_scanExclusive(port_range, common) ==
    IF common
    THEN [is_range |-> FALSE, start |-> 0, stop |-> 0,
          list |-> SelectSeq(COMMON_PORTS, LAMBDA p : InRange(port_range, p))]
    ELSE [is_range |-> TRUE, start |-> port_range[1], stop |-> port_range[2],
          list |-> <<>>]

\* lines 208-211: the ports scan_ports walks through: a list of common
\* ports, or the range object range(start, stop)
ports_to_scan(port_range, common) ==
    IF common
    THEN [is_range |-> FALSE, start |-> 0, stop |-> 0,
          list |-> SelectSeq(COMMON_PORTS, LAMBDA p : InRange(port_range, p))]
    ELSE [is_range |-> TRUE, start |-> port_range[1], stop |-> port_range[2] + 1,
          list |-> <<>>]

NoPorts == [is_range |-> FALSE, start |-> 0, stop |-> 0, list |-> <<>>]

\* the ports a list or range object yields, in the order it yields them
Items(ports) ==
    IF ports.is_range
    THEN [i \in 1..(ports.stop - ports.start) |-> ports.start + i - 1]
    ELSE ports.list

\* the set of the ports a list or range object yields
ItemSet(ports) ==
    IF ports.is_range
    THEN ports.start..(ports.stop - 1)
    ELSE {ports.list[i] : i \in DOMAIN ports.list}

\* line 60: sock.connect_ex((host, port)) returns 0 when a socket listens on
\* the port and an error number when the connection is refused, times out or
\* is not permitted; a port outside 0..65535 makes it raise OverflowError
ConnectOutcome(port) ==
    IF port \notin 0..65535 THEN "OverflowError"
    ELSE IF port \in ListeningPorts THEN "0"
    ELSE "errno"

\* scan_port catching only socket errors
ProbeCatchesOSError == "OSError"

\* line 62: except Exception
ProbeCatches == "Exception"

\* the exception of connect_ex is not caught and leaves scan_port
ProbeRaises(port) ==
    /\ ConnectOutcome(port) \notin {"0", "errno"}
    /\ ProbeCatches \notin Classes(ConnectOutcome(port))

\* lines 55-63: scan_port(host, port) is True iff connect_ex returned 0
scan_port(port) == ConnectOutcome(port) = "0"

\* lines 215-228: the record of an open port
port_info(port) ==
    LET process_info == get_process_info(port)
    IN  [port |-> port, protocol |-> "tcp",
         process_name |->
             IF process_info.found THEN process_info.process_name ELSE "unknown",
         process_id |->
             IF process_info.found THEN process_info.process_id ELSE "unknown",
         process_command |->
             IF process_info.found THEN process_info.process_command ELSE "unknown"]

\* the open ports collected in a set and listed in ascending order, as a walk
\* that loses the order of the planned list would give them
open_listSorted(port_range, common) ==
    LET open == {p \in ItemSet(ports_to_scan(port_range, common)) : scan_port(p)}
        rank(p) == Cardinality({q \in open : q <= p})
    IN  [i \in 1..Cardinality(open) |-> CHOOSE p \in open : rank(p) = i]

\* lines 213-214: the ports of the walk that scan_port finds open, in order;
\* ports_to_scan is built once (208-211) and then walked
open_list(port_range, common) ==
    CHOOSE open \in { SelectSeq(Items(ports), scan_port) :
                         ports \in {ports_to_scan(port_range, common)} } : TRUE

\* line 224: the calls of get_process_info that scan_ports makes
resolutions(port_range, common) ==
    CHOOSE calls \in
        { [i \in 1..Len(open) |->
              [port |-> open[i], calls |-> get_process_info(open[i]).calls,
               holders |-> Holders(open[i])]] :
          open \in {open_list(port_range, common)} } : TRUE

\* scan_ports with each record put in front of the earlier ones
scan_portsReversed(port_range, common) ==
    LET open == open_list(port_range, common)
    IN  [i \in 1..Len(open) |-> port_info(open[Len(open) + 1 - i])]

\* scan_ports giving up at the first open port whose owner is not resolved
scan_portsStopAtUnresolved(port_range, common) ==
    LET open == open_list(port_range, common)
        failed == {i \in 1..Len(open) : ~get_process_info(open[i]).found}
        first == CHOOSE i \in failed : \A j \in failed : i <= j
    IN  [i \in 1..(IF failed = {} THEN Len(open) ELSE first - 1) |->
            port_info(open[i])]

\* lines 204-230: scan_ports returns a record for every port found open
scan_ports(port_range, common) ==
    CHOOSE open_ports \in
        { [i \in 1..Len(open) |-> port_info(open[i])] :
          open \in {open_list(port_range, common)} } : TRUE

\* total_scanned with the count capped at the limit of the range check
total_scannedAtLimit(port_range, common) ==
    IF common
    THEN Len(SelectSeq(COMMON_PORTS, LAMBDA p : InRange(port_range, p)))
    ELSE Min(port_range[2] - port_range[1] + 1, ScanLimit)

\* lines 263-266
total_scanned(port_range, common) ==
    IF common
    THEN Len(SelectSeq(COMMON_PORTS, LAMBDA p : InRange(port_range, p)))
    ELSE Min(port_range[2] - port_range[1] + 1, TotalLimit)

\* lines 268-276 (scan_time, a wall-clock reading, is left out)
ScanResponse(port_range, common) ==
    [success |-> TRUE, action |-> "scan",
     open_ports |-> scan_ports(port_range, common),
     scan_range |-> port_range,
     total_scanned |-> total_scanned(port_range, common),
     common_ports_only |-> common]

----------------------------------------------------------------------------
(* main *)

\* main with a request it rejects: lines 233-253, 278-280, 292-293, 297-311
Reject(r) ==
    /\ pc = "start"
    /\ Validate(r).type # "none"
    /\ req' = r
    /\ Fail(Validate(r))
    /\ UNCHANGED <<env, cl, probed, resolved, events>>

\* the walk of scan_ports up to the first port whose probe raises
UpToRaise(ports) ==
    LET raising == {i \in 1..Len(Items(ports)) : ProbeRaises(Items(ports)[i])}
        first == CHOOSE i \in raising : \A j \in raising : i <= j
    IN  IF ports.is_range
        THEN [ports EXCEPT !.stop = ports.start + first]
        ELSE [ports EXCEPT !.list = SubSeq(ports.list, 1, first)]

\* a scan that terminates the owners of the open ports it finds, as close does
ScanTerminatingOwners(r) ==
    /\ pc = "start"
    /\ Validate(r).type = "none"
    /\ r.action = "scan"
    /\ LET port_range ==
               Clamp(IF r.has_range THEN r.port_range
                     ELSE <<DefaultStart, DefaultEnd>>, r.common_ports_only)
           open == open_list(port_range, r.common_ports_only)
           owners == {q \in mine : \E i \in DOMAIN open : q \in Holders(open[i])}
       IN  /\ probed' = ports_to_scan(port_range, r.common_ports_only)
           /\ resolved' = resolutions(port_range, r.common_ports_only)
           /\ stdout' = Append(stdout,
                  ScanResponse(port_range, r.common_ports_only))
           /\ alive' = alive \ owners
           /\ mine' = mine \ owners
           /\ table' = SelectSeq(table, LAMBDA l : l.pid \notin owners)
    /\ exit_code' = 0
    /\ uncaught' = FALSE
    /\ pc' = "done"
    /\ req' = r
    /\ UNCHANGED <<os_name, tools, cl, events>>

\* main with a scan request: lines 247-276, 295; an exception that leaves
\* scan_port ends scan_ports and is caught by main (lines 305-311)
Scan(r) ==
    /\ pc = "start"
    /\ Validate(r).type = "none"
    /\ r.action = "scan"
    /\ LET port_range ==
               Clamp(IF r.has_range THEN r.port_range
                     ELSE <<DefaultStart, DefaultEnd>>, r.common_ports_only)
           ports == ports_to_scan(port_range, r.common_ports_only)
       IN  IF \E p \in ItemSet(ports) : ProbeRaises(p)
           THEN /\ probed' = UpToRaise(ports)
                /\ resolved' = resolved
                /\ Fail(Exc("OverflowError", "bind(): port must be 0-65535."))
           ELSE /\ probed' = ports
                /\ resolved' = resolutions(port_range, r.common_ports_only)
                /\ stdout' = Append(stdout,
                       ScanResponse(port_range, r.common_ports_only))
                /\ exit_code' = 0
                /\ uncaught' = FALSE
                /\ pc' = "done"
    /\ req' = r
    /\ UNCHANGED <<env, cl, events>>

\* main with a close request, up to the call of close_port: lines 278-283
CloseCall(r) ==
    /\ pc = "start"
    /\ Validate(r).type = "none"
    /\ r.action = "close"
    /\ req' = r
    /\ cl' = [cl EXCEPT !.port = r.port_to_close]
    /\ pc' = "resolve"
    /\ UNCHANGED <<env, stdout, exit_code, uncaught, probed, resolved, events>>

----------------------------------------------------------------------------
(* close_port *)

Event(ev, sig, pid, port, res, line_port) ==
    [ev |-> ev, sig |-> sig, pid |-> pid, port |-> port, res |-> res,
     line_port |-> line_port]

\* close_port returns (success, message): control goes back to main
Return(success, fmt, detail) ==
    /\ cl' = [cl EXCEPT !.success = success,
                        !.message = Msg(fmt, cl.port, detail)]
    /\ pc' = "emit"

\* os.kill(pid, sig): the error it raises, or "ok" when the signal is sent
KillOutcome(pid) ==
    IF pid \notin alive THEN "ProcessLookupError"
    ELSE IF pid \notin mine THEN "PermissionError"
    ELSE "ok"

\* the except clauses of the kill attempts with a vanished process reported
\* as a failure
KillHandlersVanishedFails ==
    << [class |-> "ProcessLookupError", success |-> FALSE,
        fmt |-> "Failed to terminate process using port {port}: {e}"],
       [class |-> "PermissionError", success |-> FALSE,
        fmt |-> "Permission denied - cannot terminate process using port {port}"],
       [class |-> "Exception", success |-> FALSE,
        fmt |-> "Failed to terminate process using port {port}: {e}"] >>

\* the except clauses of the kill attempts without the one for PermissionError
KillHandlersNoPermission ==
    << [class |-> "ProcessLookupError", success |-> TRUE,
        fmt |-> "Process using port {port} was already terminated"],
       [class |-> "Exception", success |-> FALSE,
        fmt |-> "Failed to terminate process using port {port}: {e}"] >>

\* lines 194-199: the except clauses around the two kill attempts, in order
KillHandlers ==
    << [class |-> "ProcessLookupError", success |-> TRUE,
        fmt |-> "Process using port {port} was already terminated"],
       [class |-> "PermissionError", success |-> FALSE,
        fmt |-> "Permission denied - cannot terminate process using port {port}"],
       [class |-> "Exception", success |-> FALSE,
        fmt |-> "Failed to terminate process using port {port}: {e}"] >>

\* the first except clause that catches the error of a kill attempt
KillHandler(error) ==
    SelectSeq(KillHandlers, LAMBDA h : h.class \in {error, "Exception"})[1]

\* close_port without its check for a missing owner
NoOwnerUnchecked(process_info) == FALSE

\* line 161: if not process_info
NoOwner(process_info) == ~process_info.found

\* lines 160-165: resolve the owner of the port
Resolve ==
    /\ pc = "resolve"
    /\ LET process_info == get_process_info(cl.port)
       IN  /\ resolved' = Append(resolved,
                  [port |-> cl.port, calls |-> process_info.calls,
                   holders |-> Holders(cl.port)])
           /\ events' = Append(events,
                  Event("resolve", "", 0, cl.port, process_info.via,
                        process_info.line_port))
           /\ IF NoOwner(process_info)
              THEN Return(FALSE, "No process found using port {port}", "")
              ELSE IF ~IsNumeric(process_info.process_id)
              THEN \* int() raises ValueError: the outer except Exception
                   Return(FALSE, "Error closing port {port}: {e}",
                          "invalid literal for int()")
              ELSE /\ cl' = [cl EXCEPT !.pid = IntOf(process_info.process_id),
                                       !.process_name = process_info.process_name]
                   /\ pc' = "graceful"
    /\ UNCHANGED <<env, req, stdout, exit_code, uncaught, probed>>

\* the graceful attempt with the signal of the forced one
GracefulSignalForced == "SIGKILL"

\* line 172: the signal of the graceful attempt
GracefulSignal == "SIGTERM"

\* line 185: the signal of the forced attempt
ForcefulSignal == "SIGKILL"

\* the test of the re-probe with its "not" lost
PortClosedInverted(port) == scan_port(port)

\* lines 178, 189: if not scan_port('127.0.0.1', port); the port has an owner
\* in the listener table, so it is a port number connect_ex does not reject
PortClosed(port) == ~scan_port(port)

\* lines 168-172: os.kill(pid, signal.SIGTERM)
Graceful ==
    /\ pc = "graceful"
    /\ events' = Append(events,
           Event("signal", GracefulSignal, cl.pid, cl.port, KillOutcome(cl.pid), 0))
    /\ IF KillOutcome(cl.pid) = "ok"
       THEN /\ pc' = "sleep1"
            /\ cl' = cl
       ELSE Return(KillHandler(KillOutcome(cl.pid)).success,
                   KillHandler(KillOutcome(cl.pid)).fmt, KillOutcome(cl.pid))
    /\ UNCHANGED <<env, req, stdout, exit_code, uncaught, probed, resolved>>

\* line 175: time.sleep(1)
Sleep1 ==
    /\ pc = "sleep1"
    /\ events' = Append(events, Event("sleep", "", 0, cl.port, "", 0))
    /\ pc' = "verify1"
    /\ UNCHANGED <<env, req, cl, stdout, exit_code, uncaught, probed, resolved>>

\* lines 177-179: is the port still open?
Verify1 ==
    /\ pc = "verify1"
    /\ events' = Append(events,
           Event("probe", "", 0, cl.port,
                 IF scan_port(cl.port) THEN "open" ELSE "closed", 0))
    /\ IF PortClosed(cl.port)
       THEN Return(TRUE,
                "Successfully closed port {port} (terminated {process_name}, PID: {pid})",
                "")
       ELSE /\ pc' = "forceful"
            /\ cl' = cl
    /\ UNCHANGED <<env, req, stdout, exit_code, uncaught, probed, resolved>>

\* the process table and the listener table without process p
Without(p) ==
    /\ alive' = alive \ {p}
    /\ mine' = mine \ {p}
    /\ table' = SelectSeq(table, LAMBDA l : l.pid # p)

\* lines 181-185: os.kill(pid, signal.SIGKILL); a process that gets SIGKILL
\* is gone, and its sockets with it
Forceful ==
    /\ pc = "forceful"
    /\ events' = Append(events,
           Event("signal", ForcefulSignal, cl.pid, cl.port, KillOutcome(cl.pid), 0))
    /\ IF KillOutcome(cl.pid) = "ok"
       THEN /\ Without(cl.pid)
            /\ pc' = "sleep2"
            /\ cl' = cl
       ELSE /\ Return(KillHandler(KillOutcome(cl.pid)).success,
                      KillHandler(KillOutcome(cl.pid)).fmt, KillOutcome(cl.pid))
            /\ UNCHANGED <<alive, mine, table>>
    /\ UNCHANGED <<os_name, tools, req, stdout, exit_code, uncaught, probed,
                   resolved>>

\* line 187: time.sleep(1)
Sleep2 ==
    /\ pc = "sleep2"
    /\ events' = Append(events, Event("sleep", "", 0, cl.port, "", 0))
    /\ pc' = "verify2"
    /\ UNCHANGED <<env, req, cl, stdout, exit_code, uncaught, probed, resolved>>

\* lines 189-192
Verify2 ==
    /\ pc = "verify2"
    /\ events' = Append(events,
           Event("probe", "", 0, cl.port,
                 IF scan_port(cl.port) THEN "open" ELSE "closed", 0))
    /\ IF PortClosed(cl.port)
       THEN Return(TRUE,
                "Successfully closed port {port} (force killed {process_name}, PID: {pid})",
                "")
       ELSE Return(FALSE, "Failed to close port {port} - process may be protected", "")
    /\ UNCHANGED <<env, req, stdout, exit_code, uncaught, probed, resolved>>

\* lines 285-295: main prints the result of close_port and ends with status 0
Emit ==
    /\ pc = "emit"
    /\ stdout' = Append(stdout,
           [success |-> cl.success, action |-> "close",
            port |-> req.port_to_close, message |-> cl.message])
    /\ exit_code' = 0
    /\ uncaught' = FALSE
    /\ pc' = "done"
    /\ UNCHANGED <<env, req, cl, probed, resolved, events>>

----------------------------------------------------------------------------
(* The operating system while close_port runs *)

Closing == pc \in {"resolve", "graceful", "sleep1", "verify1", "forceful",
                   "sleep2", "verify2"}

\* a process ends (by itself, or because it handles a SIGTERM)
ProcExit(p) ==
    /\ Closing
    /\ p \in alive
    /\ Without(p)
    /\ UNCHANGED <<os_name, tools, pc, req, cl, stdout, exit_code, uncaught,
                   probed, resolved, events>>

\* a process starts under a free pid, owned by the invoking user or not
ProcStart(p, own) ==
    /\ Closing
    /\ p \in Pids \ alive
    /\ alive' = alive \cup {p}
    /\ mine' = IF own THEN mine \cup {p} ELSE mine
    /\ UNCHANGED <<os_name, tools, table, pc, req, cl, stdout, exit_code,
                   uncaught, probed, resolved, events>>

\* a running process starts to listen on a free port
ProcListen(p, port) ==
    /\ Closing
    /\ p \in alive
    /\ port \in EnvPorts \ ListeningPorts
    /\ table' = Append(table, Line(port, p))
    /\ UNCHANGED <<os_name, tools, alive, mine, pc, req, cl, stdout, exit_code,
                   uncaught, probed, resolved, events>>

----------------------------------------------------------------------------
(* The specification *)

\* the listener tables: every listening port once, held by a running process
Tables(running) ==
    { t \in UNION { [1..n -> [port : EnvPorts, pid : running]] :
                        n \in 0..Cardinality(EnvPorts) } :
        \A i, j \in DOMAIN t : t[i].port = t[j].port => i = j }

Init ==
    /\ os_name \in {"posix", "nt"}
    /\ tools \in IF os_name = "nt" THEN {{"netstat"}}
                 ELSE SUBSET {"netstat", "lsof", "ps"}
    /\ alive \in SUBSET Pids
    /\ mine \in SUBSET alive
    /\ table \in Tables(alive)
    /\ pc = "start"
    /\ req = NoRequest
    /\ cl = [port |-> 0, pid |-> 0, process_name |-> "", success |-> FALSE,
             message |-> NoMsg]
    /\ stdout = <<>>
    /\ exit_code = -1
    /\ uncaught = FALSE
    /\ probed = NoPorts
    /\ resolved = <<>>
    /\ events = <<>>

Main ==
    \E r \in Requests : Reject(r) \/ Scan(r) \/ CloseCall(r)

Next ==
    \/ Main
    \/ Resolve
    \/ Graceful
    \/ Sleep1
    \/ Verify1
    \/ Forceful
    \/ Sleep2
    \/ Verify2
    \/ Emit
    \/ \E p \in Pids : ProcExit(p)
    \/ \E p \in Pids, own \in BOOLEAN : ProcStart(p, own)
    \/ \E p \in Pids, port \in EnvPorts : ProcListen(p, port)

Spec == Init /\ [][Next]_vars

\* The run of the script on a request that is not a close request, with the
\* request named from the start: standard input holds it before main reads
\* it (line 235).  A scan involves the processes only through the lookups of
\* get_process_info, so the processes are drawn from a range of their own.
MaxScanPid == 1

ScanRanges == { <<8081, 8079>>, <<8079, 8081>>, <<75, 10076>> }

GivenRequests ==
    BadRequests
    \cup { Request("object", TRUE, "scan", TRUE, TRUE, r, c, FALSE, 0) :
             r \in ScanRanges, c \in BOOLEAN }
    \cup { Request("object", TRUE, "scan", FALSE, FALSE, <<>>, TRUE, FALSE, 0) }

InitGiven ==
    /\ os_name \in {"posix", "nt"}
    /\ tools \in IF os_name = "nt" THEN {{"netstat"}}
                 ELSE SUBSET {"netstat", "lsof", "ps"}
    /\ alive \in SUBSET (1..MaxScanPid)
    /\ mine \in SUBSET alive
    /\ table \in Tables(alive)
    /\ pc = "start"
    /\ req \in GivenRequests
    /\ cl = [port |-> 0, pid |-> 0, process_name |-> "", success |-> FALSE,
             message |-> NoMsg]
    /\ stdout = <<>>
    /\ exit_code = -1
    /\ uncaught = FALSE
    /\ probed = NoPorts
    /\ resolved = <<>>
    /\ events = <<>>

\* main on the request that standard input holds
NextGiven == Reject(req) \/ Scan(req)

\* the interpreter runs main once the script is started: a step of main that
\* can be taken is taken
LiveSpec == InitGiven /\ [][NextGiven]_vars /\ WF_vars(NextGiven)

----------------------------------------------------------------------------
(* Properties *)

\* the range a scan request asks for
Requested(r) == IF r.has_range THEN r.port_range ELSE <<DefaultStart, DefaultEnd>>

\* the script has ended after a scan that was carried out
ScanDone ==
    /\ pc = "done"
    /\ req.raw = "object" /\ req.has_action /\ req.action = "scan"
    /\ Len(stdout) = 1 /\ stdout[1].success

\* close_port has returned
CloseReturned ==
    /\ pc \in {"emit", "done"}
    /\ req.raw = "object" /\ req.has_action /\ req.action = "close" /\ req.has_port

IsSignal(e) == e.ev = "signal"
IsSent(e) == e.ev = "signal" /\ e.res = "ok"
IsProbe(e) == e.ev = "probe"

\* C1 as claimed: a full scan of a range of more than 10,000 ports probes
\* exactly the 10,000 ports start .. start + 9999.
C1_ProbesTenThousand ==
    (ScanDone /\ ~req.common_ports_only
        /\ Requested(req)[2] - Requested(req)[1] + 1 > 10000)
    => ItemSet(probed) = Requested(req)[1]..(Requested(req)[1] + 9999)

\* C1 as amended: a full scan of a range with end - start > 10,000 probes
\* exactly the 10,001 ports start .. start + 10000 (the start is kept, the
\* end is clamped to start + 10000); a range of exactly 10,001 ports is
\* probed whole.
C1_ProbesClampedRange ==
    (ScanDone /\ ~req.common_ports_only
        /\ Requested(req)[2] - Requested(req)[1] + 1 > 10000)
    => /\ ItemSet(probed) = Requested(req)[1]..(Requested(req)[1] + 10000)
       /\ Cardinality(ItemSet(probed)) = 10001
       /\ stdout[1].scan_range = <<Requested(req)[1], Requested(req)[1] + 10000>>

\* C1 witness: a scan of 75..10076 (10,002 ports) has ended
C1_Witness ==
    /\ ScanDone /\ ~req.common_ports_only
    /\ req.has_range /\ req.port_range = <<75, 10076>>
    /\ probed.is_range /\ probed.start = 75

\* the last probe or signal attempt of close_port, 0 if there is none
LastAct ==
    LET acts == {i \in DOMAIN events : IsSignal(events[i]) \/ IsProbe(events[i])}
    IN  IF acts = {} THEN 0 ELSE CHOOSE i \in acts : \A j \in acts : j <= i

\* the last thing close_port did to the port was a probe that found it closed
VerifiedClosed ==
    /\ LastAct > 0
    /\ IsProbe(events[LastAct])
    /\ events[LastAct].res = "closed"
    /\ events[LastAct].port = req.port_to_close

\* C2 as claimed: close never reports success unless the most recent probe,
\* made after the last termination signal, found the port closed.
C2_SuccessOnlyAfterClosedProbe ==
    (CloseReturned /\ cl.success) => VerifiedClosed

\* C2 as amended: close reports success only if the most recent probe, made
\* after the last termination signal, found the port closed, or if the last
\* kill call raised process-not-found ("already terminated", no probe follows).
C2_SuccessOnlyVerifiedOrVanished ==
    (CloseReturned /\ cl.success)
    => \/ VerifiedClosed
       \/ /\ LastAct > 0
          /\ IsSignal(events[LastAct])
          /\ events[LastAct].res = "ProcessLookupError"
          /\ cl.message.fmt = "Process using port {port} was already terminated"

\* C2 witness: success reported after a forced kill and a probe that found
\* the port closed
C2_Witness ==
    /\ pc = "done" /\ CloseReturned /\ cl.success /\ VerifiedClosed
    /\ \E i \in DOMAIN events : IsSent(events[i]) /\ events[i].sig = "SIGKILL"

\* C3: every forced kill comes directly after a SIGTERM that was sent to the
\* same pid, the settle wait, and a probe that found the port still open.
C3_KillOnlyAfterTermWaitProbe ==
    \A i \in DOMAIN events :
        (IsSignal(events[i]) /\ events[i].sig = "SIGKILL")
        => /\ i > 3
           /\ IsSent(events[i - 3])
           /\ events[i - 3].sig = "SIGTERM"
           /\ events[i - 3].pid = events[i].pid
           /\ events[i - 2].ev = "sleep"
           /\ IsProbe(events[i - 1])
           /\ events[i - 1].res = "open"
           /\ events[i - 1].port = req.port_to_close
           /\ \A j \in 1..(i - 4) : ~IsSignal(events[j])

\* C3 witness: a forced kill was sent
C3_Witness ==
    \E i \in DOMAIN events : IsSent(events[i]) /\ events[i].sig = "SIGKILL"

\* the script has ended and printed exactly this one response
Printed == stdout[1]

\* the response has the failure shape {success: false, message}
IsFailureResponse(resp) ==
    /\ DOMAIN resp = {"success", "message"}
    /\ resp.success = FALSE

\* the response has the close shape {success, action, port, message}
IsCloseResponse(resp) ==
    /\ DOMAIN resp = {"success", "action", "port", "message"}
    /\ resp.action = "close"

\* C4 as claimed: the exit code is 1 whenever the response reports
\* success=false, and 0 only when it reports success=true.
C4_ExitCodeFollowsSuccess ==
    (pc = "done" /\ Len(stdout) = 1)
    => /\ (Printed.success = FALSE => exit_code = 1)
       /\ (exit_code = 0 => Printed.success = TRUE)

\* C4 as amended: the exit code is 1 exactly when the response is the
\* failure object {success: false, message} that main prints for an
\* exception (validation, malformed JSON); it is 0 for every scan and every
\* close response, so a response with success=true always has exit code 0
\* and a close that did not succeed has exit code 0 too.
C4_ExitCodeFollowsException ==
    (pc = "done" /\ Len(stdout) = 1)
    => /\ (exit_code = 1 <=> IsFailureResponse(Printed))
       /\ (exit_code = 0 <=> ~IsFailureResponse(Printed))
       /\ (Printed.success = TRUE => exit_code = 0)
       /\ (IsCloseResponse(Printed) => exit_code = 0)

\* C4 witness: a close that did not succeed has ended with exit code 0
C4_Witness ==
    /\ pc = "done" /\ Len(stdout) = 1
    /\ IsCloseResponse(Printed) /\ Printed.success = FALSE
    /\ exit_code = 0

\* a scan request whose port_range is a pair with start > end
DescendingScan(r) ==
    /\ r.raw = "object" /\ r.has_action /\ r.action = "scan"
    /\ r.has_range /\ r.range_is_list
    /\ Len(r.port_range) = 2 /\ r.port_range[1] > r.port_range[2]

\* nothing was probed, no owner was resolved, no signal sent, no wait made
NothingDone ==
    /\ probed = NoPorts
    /\ resolved = <<>>
    /\ events = <<>>

\* C5: a scan request with start > end ends with a failure response and a
\* non-zero exit code, and nothing is probed or resolved in that run.
C5_DescendingRangeRejected ==
    (pc = "done" /\ DescendingScan(req))
    => /\ Len(stdout) = 1
       /\ IsFailureResponse(Printed)
       /\ exit_code # 0
       /\ NothingDone

\* C5 witness: the run of a scan request for [8081, 8079] has ended
C5_Witness ==
    /\ pc = "done" /\ DescendingScan(req) /\ req.port_range = <<8081, 8079>>
    /\ Len(stdout) = 1

\* owner resolution found no process for the port asked to be closed
ResolvedNone ==
    /\ Len(events) > 0
    /\ events[1].ev = "resolve"
    /\ events[1].res = "none"

\* C6: when owner resolution finds no process, close returns success=false
\* with the message "No process found using port <port>", and sends no
\* signal, makes no settle wait and no probe.
C6_NoOwnerNoAction ==
    (CloseReturned /\ ResolvedNone)
    => /\ cl.success = FALSE
       /\ cl.message = Msg("No process found using port {port}",
                           req.port_to_close, "")
       /\ Len(events) = 1
       /\ (pc = "done" =>
               /\ Len(stdout) = 1
               /\ Printed = [success |-> FALSE, action |-> "close",
                             port |-> req.port_to_close,
                             message |-> Msg("No process found using port {port}",
                                             req.port_to_close, "")])

\* C6 witness: the close of port 65534, on which nothing listens, has ended
C6_Witness ==
    /\ pc = "done" /\ CloseReturned /\ ResolvedNone
    /\ req.port_to_close = 65534

\* C7: every run prints exactly one JSON object before it ends, and does not
\* end with an uncaught exception; nothing is printed before the end.
C7_ExactlyOneResponse ==
    /\ (pc = "done" => Len(stdout) = 1 /\ ~uncaught /\ exit_code \in {0, 1})
    /\ (pc # "done" => stdout = <<>> /\ ~uncaught)

\* C7 witness: the run on an input that is JSON but no object (main raises
\* TypeError) has ended with its response printed
C7_Witness ==
    /\ pc = "done" /\ req.raw = "scalar" /\ Len(stdout) = 1

\* the validation failures: malformed JSON, no action, a port_range that is
\* no ascending pair, close without port_to_close, an unknown action
ValidationFailure(r) ==
    \/ r.raw = "garbage"
    \/ /\ r.raw = "object"
       /\ \/ ~r.has_action
          \/ r.has_action /\ r.action \notin {"scan", "close"}
          \/ r.has_action /\ r.action = "close" /\ ~r.has_port
          \/ /\ r.has_action /\ r.action = "scan" /\ r.has_range
             /\ \/ ~r.range_is_list
                \/ Len(r.port_range) # 2
                \/ r.port_range[1] > r.port_range[2]

\* C8: every validation failure ends with a response {success: false,
\* message} and exit code 1, with nothing probed, resolved or signalled; for
\* malformed JSON the message says that the JSON is invalid.
C8_ValidationFailureResponse ==
    (pc = "done" /\ ValidationFailure(req))
    => /\ Len(stdout) = 1
       /\ IsFailureResponse(Printed)
       /\ exit_code = 1
       /\ NothingDone
       /\ (req.raw = "garbage" <=>
               Printed.message.fmt = "Invalid JSON input: {e}")

\* C8 witness: the run on input that is not JSON has ended
C8_Witness ==
    /\ pc = "done" /\ req.raw = "garbage" /\ Len(stdout) = 1

\* C9 as claimed: the owner the listener table gives for a port is the
\* process of an entry whose port is exactly the port asked for.
C9_ListenerEntryMatchesPort ==
    \A i \in DOMAIN events :
        (events[i].ev = "resolve" /\ events[i].res = "netstat")
        => events[i].line_port = events[i].port

\* a kill attempt of close_port raised PermissionError
PermissionRaised ==
    \E i \in DOMAIN events :
        IsSignal(events[i]) /\ events[i].res = "PermissionError"

\* C10: a permission error of either kill attempt makes close return
\* success=false with the "Permission denied" message, and main prints the
\* close response {success, action, port, message} as usual.
C10_PermissionDenied ==
    (CloseReturned /\ PermissionRaised)
    => /\ cl.success = FALSE
       /\ cl.message.fmt =
              "Permission denied - cannot terminate process using port {port}"
       /\ cl.message.port = req.port_to_close
       /\ ~uncaught
       /\ (pc = "done" =>
               /\ Len(stdout) = 1
               /\ IsCloseResponse(Printed)
               /\ Printed.success = FALSE
               /\ Printed.port = req.port_to_close
               /\ Printed.message = cl.message)

\* C10 witness: the forced kill raised PermissionError and the run has ended
C10_Witness ==
    /\ pc = "done" /\ CloseReturned
    /\ \E i \in DOMAIN events :
           /\ IsSignal(events[i]) /\ events[i].sig = "SIGKILL"
           /\ events[i].res = "PermissionError"

\* the graceful kill attempt raised ProcessLookupError
GracefulVanished ==
    \E i \in DOMAIN events :
        /\ IsSignal(events[i]) /\ events[i].sig = "SIGTERM"
        /\ events[i].res = "ProcessLookupError"

\* C11: when the graceful kill raises ProcessLookupError because the resolved
\* process has gone, close returns success=true with the "already terminated"
\* message; the kill attempt is the last thing it did: no forced kill is sent.
C11_VanishedIsSuccess ==
    (CloseReturned /\ GracefulVanished)
    => /\ cl.success = TRUE
       /\ cl.message.fmt = "Process using port {port} was already terminated"
       /\ cl.message.port = req.port_to_close
       /\ Len(events) = 2
       /\ events[1].ev = "resolve" /\ events[1].res # "none"
       /\ events[2].pid \notin alive
       /\ \A i \in DOMAIN events : events[i].sig # "SIGKILL"
       /\ (pc = "done" =>
               /\ IsCloseResponse(Printed)
               /\ Printed.success = TRUE
               /\ Printed.message = cl.message)

\* C11 witness: the run has ended after a graceful kill that found the
\* resolved process gone
C11_Witness ==
    /\ pc = "done" /\ CloseReturned
    /\ GracefulVanished
    /\ Printed.success = TRUE

\* the script has ended after a scan request that main accepted
ScanAccepted ==
    /\ pc = "done"
    /\ Validate(req).type = "none"
    /\ req.action = "scan"

\* the ports the scan was to probe
Planned ==
    ports_to_scan(Clamp(Requested(req), req.common_ports_only),
                  req.common_ports_only)

\* the ports of the records of open_ports, in order
OpenPorts == [i \in DOMAIN Printed.open_ports |-> Printed.open_ports[i].port]

\* the planned ports on which a socket listens
PlannedOpen == {p \in ListeningPorts : p \in ItemSet(Planned)}

\* the record of an open port whose owner was not resolved
UnknownRecord(port) ==
    [port |-> port, protocol |-> "tcp", process_name |-> "unknown",
     process_id |-> "unknown", process_command |-> "unknown"]

\* C12: an accepted scan never fails and probes every planned port; every
\* planned port that is open has a record, and the record of a port whose
\* owner resolution returned nothing carries "unknown" for process_name,
\* process_id and process_command.
C12_ScanProbesEveryPlannedPort ==
    ScanAccepted
    => /\ ScanDone
       /\ ~uncaught /\ exit_code = 0
       /\ probed = Planned
       /\ {OpenPorts[i] : i \in DOMAIN OpenPorts} = PlannedOpen
       /\ \A i \in DOMAIN OpenPorts :
              ~get_process_info(OpenPorts[i]).found
              => Printed.open_ports[i] = UnknownRecord(OpenPorts[i])

\* C12 witness: a scan found two open ports, the owner of the first was not
\* resolved, and the second is recorded after it
C12_Witness ==
    /\ ScanDone
    /\ Len(Printed.open_ports) = 2
    /\ ~get_process_info(OpenPorts[1]).found
    /\ Printed.open_ports[1].process_id = "unknown"
    /\ get_process_info(OpenPorts[2]).found

\* the pid that the lookup strategy get_process_info comes to finds for the
\* port: the last column of the listener-table entry, else the first line of
\* the open-files output; "" when neither finds one
FoundPid(port) ==
    IF ListenerLines(port) # <<>>
    THEN PidColumn(ListenerLines(port)[1]).pid
    ELSE IF os_name # "nt" /\ "lsof" \in tools /\ LsofOutput(port) # <<>>
    THEN PidStr(LsofOutput(port)[1].pid)
    ELSE ""

\* C13 as claimed: whenever the listener table or the open-files fallback
\* finds a pid for the port, get_process_info returns a record with that pid,
\* also when ps fails or is missing: a scan reports the pid in the record of
\* the port, and close does not answer "No process found".
C13_FoundPidIsReturned ==
    /\ ScanDone
       => \A i \in DOMAIN OpenPorts :
              FoundPid(OpenPorts[i]) # ""
              => Printed.open_ports[i].process_id = FoundPid(OpenPorts[i])
    /\ (CloseReturned /\ ResolvedNone) => FoundPid(cl.port) = ""

\* the number of ports of the requested range
Span == Requested(req)[2] - Requested(req)[1] + 1

\* the ports of the requested range on which a socket listens
RequestedOpen ==
    {p \in ListeningPorts : InRange(Requested(req), p)}

\* C14: a full scan (common_ports_only=false) of a range of at most 10,000
\* ports reports total_scanned = end - start + 1, and open_ports holds exactly
\* one record for each open port of the range and none for any other port.
C14_FullScanCountsAndRecords ==
    (ScanDone /\ ~req.common_ports_only /\ Span <= ScanLimit)
    => /\ Printed.total_scanned = Span
       /\ Len(OpenPorts) = Cardinality(RequestedOpen)
       /\ {OpenPorts[i] : i \in DOMAIN OpenPorts} = RequestedOpen
       /\ Cardinality(ItemSet(probed)) = Span

\* C14 witness: the range [8079, 8081] with a listener on 8080 gives one
\* record, port 8080, and total_scanned 3
C14_Witness ==
    /\ ScanDone /\ ~req.common_ports_only
    /\ Requested(req) = <<8079, 8081>>
    /\ 8080 \in ListeningPorts
    /\ OpenPorts = <<8080>>
    /\ Printed.total_scanned = 3

\* the common ports that lie within the requested range
RequestedCommon ==
    {COMMON_PORTS[i] : i \in {j \in DOMAIN COMMON_PORTS :
                                 InRange(Requested(req), COMMON_PORTS[j])}}

\* C15: a common-ports-only scan probes exactly the common ports within the
\* requested [start, end], whatever the span of the range: the limit of
\* 10,000 is not applied, scan_range is the requested range and total_scanned
\* is the number of common ports inside it.
C15_CommonScanUnclamped ==
    (ScanDone /\ req.common_ports_only)
    => /\ ~probed.is_range
       /\ ItemSet(probed) = RequestedCommon
       /\ Len(Items(probed)) = Cardinality(RequestedCommon)
       /\ Printed.scan_range = Requested(req)
       /\ Printed.total_scanned = Cardinality(RequestedCommon)
       /\ Printed.common_ports_only = TRUE

\* C15 witness: a common-ports-only scan of a range of more than 10,000 ports
\* probed a common port beyond start + 10000
C15_Witness ==
    /\ ScanDone /\ req.common_ports_only
    /\ Span > ScanLimit
    /\ \E p \in ItemSet(probed) : p > Requested(req)[1] + ScanLimit
    /\ Printed.total_scanned = Len(COMMON_PORTS)

\* C16 as claimed: every signal close_port sends goes to a process that held
\* a listening socket on exactly the requested port when the owner was
\* resolved, never to a process that listened only on other ports.
C16_SignalsOnlyOwnerOfPort ==
    \A i \in DOMAIN events :
        IsSent(events[i])
        => /\ events[i].port = req.port_to_close
           /\ resolved[1].port = req.port_to_close
           /\ events[i].pid \in resolved[1].holders

\* the position of a port in the list of common ports
CommonIndex(p) == CHOOSE i \in DOMAIN COMMON_PORTS : COMMON_PORTS[i] = p

\* C17 as claimed: the records of open_ports are in ascending order of port
\* number for every scan, full-range and common-ports-only.
C17_OpenPortsAscending ==
    ScanDone
    => \A i, j \in DOMAIN OpenPorts : i < j => OpenPorts[i] < OpenPorts[j]

\* C17 amended: the records of a full-range scan are in ascending order of
\* port number; the records of a common-ports-only scan are in the order of
\* the list of common ports, which is not ascending.
C17_OpenPortsInWalkOrder ==
    ScanDone
    => \A i, j \in DOMAIN OpenPorts :
           i < j => IF req.common_ports_only
                    THEN CommonIndex(OpenPorts[i]) < CommonIndex(OpenPorts[j])
                    ELSE OpenPorts[i] < OpenPorts[j]

\* C17 witness: a common-ports-only scan reported port 8080 before port 3030
C17_Witness ==
    /\ ScanDone /\ req.common_ports_only
    /\ OpenPorts = <<8080, 3030>>

\* the position of a port in the walk that was handed to the scan loop
WalkIndex(p) ==
    IF probed.is_range
    THEN p - probed.start + 1
    ELSE CHOOSE i \in DOMAIN probed.list : probed.list[i] = p

\* C18: the scan loop visits the planned list once from its first port to its
\* last, so no port is probed twice, and open_ports lists the ports found
\* open in the order of the planned list: it is the subsequence of the
\* planned list made of the open ports.
C18_OpenPortsSubsequenceOfPlan ==
    ScanDone
    => /\ probed = Planned
       /\ ~probed.is_range
              => Cardinality(ItemSet(probed)) = Len(probed.list)
       /\ \A i \in DOMAIN OpenPorts :
              OpenPorts[i] \in ItemSet(probed) /\ scan_port(OpenPorts[i])
       /\ \A i, j \in DOMAIN OpenPorts :
              i < j => WalkIndex(OpenPorts[i]) < WalkIndex(OpenPorts[j])
       /\ \A p \in PlannedOpen : \E i \in DOMAIN OpenPorts : OpenPorts[i] = p
       /\ [i \in DOMAIN resolved |-> resolved[i].port] = OpenPorts

\* C18 witness: a common-ports-only scan found two ports open that the
\* planned list holds out of numerical order
C18_Witness ==
    /\ ScanDone /\ req.common_ports_only
    /\ Len(OpenPorts) = 2
    /\ OpenPorts[1] > OpenPorts[2]
    /\ WalkIndex(OpenPorts[1]) < WalkIndex(OpenPorts[2])

\* the call of get_process_info used the command
Used(call, tool) == \E k \in DOMAIN call.calls : call.calls[k] = tool

\* neither lookup gives get_process_info a record for the port: the listener
\* table has no usable entry, and the open-files lookup is not made (Windows),
\* cannot be run, prints nothing, or cannot be followed by the ps queries
NoLookupAnswers(port) ==
    /\ ListenerLines(port) = <<>>
    /\ \/ os_name = "nt"
       \/ "lsof" \notin tools
       \/ LsofOutput(port) = <<>>
       \/ "ps" \notin tools

\* the call of get_process_info that close_port makes: lsof is run
\* only after netstat, and only when the listener table gave no owner; an
\* owner the listener table gives is the one returned; when neither lookup
\* answers the call returns None without raising, and close_port answers
\* "No process found".
CloseResolutionStep ==
    (pc = "resolve" /\ pc' # "resolve")
    => LET call == resolved'[Len(resolved')]
           ev == events'[Len(events')]
       IN  /\ Len(resolved') = Len(resolved) + 1
           /\ call.port = cl.port
           /\ call.calls[1] = "netstat"
           /\ Used(call, "lsof") => (ListenerLines(cl.port) = <<>> /\ ev.res # "netstat")
           /\ ListenerLines(cl.port) # <<>>
              => /\ ~Used(call, "lsof")
                 /\ ev.res = "netstat"
                 /\ ev.line_port = ListenerLines(cl.port)[1].port
                 /\ pc' = "graceful" => cl'.pid = ListenerLines(cl.port)[1].pid
           /\ NoLookupAnswers(cl.port)
              => /\ ev.res = "none"
                 /\ pc' = "emit"
                 /\ cl'.message.fmt = "No process found using port {port}"

\* the calls of get_process_info that a scan makes, one for each
\* open port: the same, with the result seen in the record of the port.
ScanResolutionStep ==
    (pc = "start" /\ pc' = "done" /\ Len(resolved') > 0)
    => \A i \in DOMAIN resolved' :
           LET call == resolved'[i]
               rec == stdout'[1].open_ports[i]
           IN  /\ rec.port = call.port
               /\ call.calls[1] = "netstat"
               /\ Used(call, "lsof") => ListenerLines(call.port) = <<>>
               /\ ListenerLines(call.port) # <<>>
                  => /\ ~Used(call, "lsof")
                     /\ rec.process_id = PidColumn(ListenerLines(call.port)[1]).pid
               /\ NoLookupAnswers(call.port)
                  => /\ rec = UnknownRecord(call.port)
                     /\ ~uncaught' /\ exit_code' = 0

\* C19: owner resolution consults lsof only when the listener-table lookup
\* produced no owner; an owner from the listener table is returned without
\* the fallback being invoked; when both lookups yield nothing or a tool is
\* missing, the result is None and nothing is raised.
C19_FallbackOnlyWithoutListenerOwner ==
    [][CloseResolutionStep /\ ScanResolutionStep]_vars

\* C19 witness: close_port resolved the owner through lsof after the listener
\* table gave none
C19_Witness ==
    /\ CloseReturned
    /\ Len(events) > 1
    /\ events[1].ev = "resolve" /\ events[1].res = "lsof"
    /\ resolved[1].calls = <<"netstat", "lsof", "ps", "ps">>

\* a scan step: every planned port is probed, no probe raises (the scan ends
\* with its response, not with a failure), the operating system is left as
\* it was, and a port is reported open iff probing it again says so
ScanProbesStep ==
    (pc = "start" /\ pc' = "done" /\ Validate(req').type = "none"
        /\ req'.action = "scan")
    => /\ env' = env
       /\ ~uncaught' /\ exit_code' = 0
       /\ Len(stdout') = 1 /\ stdout'[1].success
       /\ \A i \in DOMAIN stdout'[1].open_ports :
              scan_port(stdout'[1].open_ports[i].port)
       /\ \A p \in ListeningPorts :
              p \in ItemSet(probed')
              => \E i \in DOMAIN stdout'[1].open_ports :
                     stdout'[1].open_ports[i].port = p

\* a probe step of close_port: the probe answers open or closed, the
\* operating system is left as it was, and probing again gives the same answer
CloseProbesStep ==
    (pc \in {"verify1", "verify2"} /\ pc' # pc)
    => LET ev == events'[Len(events')]
       IN  /\ env' = env
           /\ Len(events') = Len(events) + 1
           /\ IsProbe(ev) /\ ev.port = cl.port
           /\ ev.res \in {"open", "closed"}
           /\ (ev.res = "open") <=> scan_port(cl.port)'
           /\ pc' = "emit" => cl'.message.fmt # "Error closing port {port}: {e}"

\* C20: a probe returns a boolean for every port, a port number outside
\* 0..65535 included, and never raises; it leaves the listening ports and
\* the running processes unchanged, so that probing again on the unchanged
\* system gives the same result.
C20_ProbeBooleanAndFrame ==
    [][ScanProbesStep /\ CloseProbesStep]_vars

\* C20 witness: a scan has probed port 65536, which is not a port number,
\* and ended with its response
C20_Witness ==
    /\ ScanDone
    /\ 65536 \in ItemSet(probed)
    /\ ConnectOutcome(65536) = "OverflowError"
    /\ ~scan_port(65536)
    /\ Printed.total_scanned = 2

\* the number of ports handed to the scan loop, each of which is probed once
ProbeCount ==
    IF probed.is_range THEN probed.stop - probed.start ELSE Len(probed.list)

\* C21: in every successful scan response total_scanned is the number of
\* probes made and scan_range is the range after the clamp; for a full scan
\* (common_ports_only=false) the probes are the ports of scan_range, so
\* total_scanned = scan_range[1] - scan_range[0] + 1.
C21_TotalScannedCountsProbes ==
    ScanDone
    => /\ Printed.total_scanned = ProbeCount
       /\ Printed.scan_range =
              IF ~req.common_ports_only /\ Span > TotalLimit
              THEN <<Requested(req)[1], Requested(req)[1] + ScanLimit>>
              ELSE Requested(req)
       /\ ~req.common_ports_only
          => /\ probed.is_range
             /\ probed.start = Printed.scan_range[1]
             /\ probed.stop = Printed.scan_range[2] + 1
             /\ Printed.total_scanned =
                    Printed.scan_range[2] - Printed.scan_range[1] + 1

\* C21 witness: a full scan of a range that was clamped reports the clamped
\* range and the 10,001 probes made
C21_Witness ==
    /\ ScanDone /\ ~req.common_ports_only
    /\ Span > TotalLimit
    /\ Printed.scan_range # Requested(req)
    /\ Printed.total_scanned = TotalLimit
    /\ ProbeCount = TotalLimit

\* C22: an invocation with action "scan" sends no signal and leaves the
\* running processes and their listening sockets as they were, whatever
\* ports are open and whatever owners are resolved; the invocation is over
\* after the scan.
C22_ScanLeavesProcessesAlone ==
    [][ (pc = "start" /\ req'.raw = "object" /\ req'.has_action
            /\ req'.action = "scan")
        => /\ alive' = alive /\ mine' = mine /\ table' = table
           /\ \A i \in DOMAIN events' : ~IsSignal(events'[i])
           /\ pc' = "done" ]_vars

\* C22 witness: a scan has resolved the owner of an open port, a process of
\* the user that could be signalled, and that process is still running
C22_Witness ==
    /\ ScanDone
    /\ events = <<>>
    /\ \E i \in DOMAIN Printed.open_ports :
           \E q \in alive \cap mine :
               /\ Printed.open_ports[i].process_id = PidStr(q)
               /\ q \in Holders(OpenPorts[i])

\* standard input holds a scan request that main accepts, and main has not
\* yet run
ScanPending ==
    /\ pc = "start"
    /\ Validate(req).type = "none"
    /\ req.action = "scan"

\* C23 as claimed, its bound: a full scan makes at most 10,000 probes (the
\* cap), a common-ports-only scan at most as many as there are common ports.
C23_ProbesWithinCap ==
    ScanDone
    => ProbeCount <= (IF req.common_ports_only THEN Len(COMMON_PORTS)
                      ELSE ScanLimit)

\* the scan loop is entered once: the ports handed to it are never replaced
\* and a finished run takes no further step
NoRescan ==
    [][(probed # NoPorts \/ pc = "done") => (probed' = probed /\ pc' = "done")]_vars

\* C23 amended: every accepted scan request reaches completion and emits its
\* response; the scan makes at most 10,001 probes for a full scan, at most
\* as many as there are common ports otherwise, and is never repeated.
C23_ScanCompletes ==
    /\ ScanPending ~> (ScanDone /\ exit_code = 0 /\ ~uncaught)
    /\ [](ScanDone
            => ProbeCount <= (IF req.common_ports_only THEN Len(COMMON_PORTS)
                              ELSE TotalLimit))
    /\ NoRescan

\* C23 witness: a full scan of a clamped range has ended with its response
\* after 10,001 probes
C23_Witness ==
    /\ ScanDone /\ ~req.common_ports_only
    /\ ProbeCount = TotalLimit
    /\ exit_code = 0

====
